---- MODULE Spec2Model ----
(***************************************************************************)
(* The notebook 0-single-cog.ipynb as a state machine.  One kernel process *)
(* holds a namespace, the process environment (os.environ), the Dask       *)
(* worker pools and the timings that the %%time cells print.  The Jupyter  *)
(* front-end queues cells; the kernel executes the head of the queue; an   *)
(* exception in a cell drops what is still queued.                         *)
(***************************************************************************)
EXTENDS Naturals, Sequences, FiniteSets

VARIABLES queue, pending, ns, env, writes, log, err, dask, ran

vars == <<queue, pending, ns, env, writes, log, err, dask, ran>>

\* Wall times printed by %%time are positive; MaxDur bounds them.
MaxDur == 2
\* Number of sections the user runs one after another in SpecSeq.
MaxRuns == 2

Durations == 1..MaxDur

Modes == {"local-download", "remote-default", "remote-tuned", "remote-chunked"}

\* The sections of the notebook a user can run: the four strategies and the
\* closing plot.
Sections == Modes \cup {"visualize"}

\* The notebook with the default read's reduction moved above "del da".
NotebookMeanMovedUp ==
  << "imports", "versions", "urls", "validate",
     "dl_open", "dl_size", "dl_mean", "def_mean", "dl_del",
     "def_open", "def_cached", "def_del",
     "environ", "tuned_open", "tuned_mean", "tuned_del",
     "cluster", "chunk_open", "graph", "visualize", "compute",
     "hvplot", "empty" >>

\* The notebook with the settings cell right after the imports.
NotebookSettingsFirst ==
  << "imports", "environ", "versions", "urls", "validate",
     "dl_open", "dl_size", "dl_mean", "dl_del",
     "def_open", "def_mean", "def_cached", "def_del",
     "tuned_open", "tuned_mean", "tuned_del",
     "cluster", "chunk_open", "graph", "visualize", "compute",
     "hvplot", "empty" >>

\* The notebook with the settings cell above the cached default read.
NotebookSettingsEarly ==
  << "imports", "versions", "urls", "validate",
     "dl_open", "dl_size", "dl_mean", "dl_del",
     "def_open", "def_mean", "environ", "def_cached", "def_del",
     "tuned_open", "tuned_mean", "tuned_del",
     "cluster", "chunk_open", "graph", "visualize", "compute",
     "hvplot", "empty" >>

\* The notebook with the settings cell below the tuned open.
NotebookSettingsAfterOpen ==
  << "imports", "versions", "urls", "validate",
     "dl_open", "dl_size", "dl_mean", "dl_del",
     "def_open", "def_mean", "def_cached", "def_del",
     "tuned_open", "environ", "tuned_mean", "tuned_del",
     "cluster", "chunk_open", "graph", "visualize", "compute",
     "hvplot", "empty" >>

\* The code cells of the notebook, top to bottom.
Notebook ==
  << "imports", "versions", "urls", "validate",
     "dl_open", "dl_size", "dl_mean", "dl_del",
     "def_open", "def_mean", "def_cached", "def_del",
     "environ", "tuned_open", "tuned_mean", "tuned_del",
     "cluster", "chunk_open", "graph", "visualize", "compute",
     "hvplot", "empty" >>

Cells ==
  {"imports", "versions", "urls", "validate",
   "dl_open", "dl_size", "dl_mean", "dl_del",
   "def_open", "def_mean", "def_cached", "def_del",
   "environ", "tuned_open", "tuned_mean", "tuned_del",
   "cluster", "chunk_open", "graph", "visualize", "compute",
   "hvplot", "empty"}

\* The section (access strategy) a cell belongs to.
CellMode(c) ==
  CASE c \in {"dl_open", "dl_size", "dl_mean", "dl_del"} -> "local-download"
    [] c \in {"def_open", "def_mean", "def_cached", "def_del"} -> "remote-default"
    [] c \in {"environ", "tuned_open", "tuned_mean", "tuned_del"} -> "remote-tuned"
    [] c \in {"cluster", "chunk_open", "graph", "visualize", "compute"} -> "remote-chunked"
    [] c \in {"hvplot", "empty"} -> "visualize"
    [] OTHER -> "preamble"

\* What a %%time cell measures.
CellPhase(c) ==
  CASE c \in {"dl_open", "def_open", "tuned_open", "chunk_open"} -> "open"
    [] c \in {"dl_mean", "def_mean", "tuned_mean", "compute"} -> "compute"
    [] c = "def_cached" -> "open+compute"
    [] c = "graph" -> "graph"
    [] c = "hvplot" -> "open+plot"
    [] OTHER -> "untimed"

Preamble == SelectSeq(Notebook, LAMBDA c : CellMode(c) = "preamble")

Section(m) == SelectSeq(Notebook, LAMBDA c : CellMode(c) = m)

\* ---------------------------------------------------------------- settings

SettingNames ==
  {"GDAL_DISABLE_READDIR_ON_OPEN", "AWS_NO_SIGN_REQUEST",
   "GDAL_MAX_RAW_BLOCK_CACHE_SIZE", "GDAL_SWATH_SIZE", "VSI_CURL_CACHE_SIZE"}

\* The assignments of the settings cell, in program order.
GDALSettings ==
  << <<"GDAL_DISABLE_READDIR_ON_OPEN", "EMPTY_DIR">>,
     <<"AWS_NO_SIGN_REQUEST", "YES">>,
     <<"GDAL_MAX_RAW_BLOCK_CACHE_SIZE", "200000000">>,
     <<"GDAL_SWATH_SIZE", "200000000">>,
     <<"VSI_CURL_CACHE_SIZE", "200000000">> >>

TunedSet == {GDALSettings[i] : i \in 1..Len(GDALSettings)}

\* os.environ[n] = v with the write lost (made on a copy of the environment).
SetEnvOnCopy(e, n, v) == e

\* os.environ[n] = v
SetEnv(e, n, v) == [e EXCEPT ![n] = v]

RECURSIVE ApplyAll(_, _)
ApplyAll(e, kvs) ==
  IF kvs = <<>> THEN e
  ELSE ApplyAll(SetEnv(e, Head(kvs)[1], Head(kvs)[2]), Tail(kvs))

\* The settings the process environment holds (names that are set).
Applied(e) == {<<n, e[n]>> : n \in {x \in SettingNames : e[x] # "unset"}}

\* The settings each strategy is documented to be measured under: library
\* defaults for the download and the default remote read, the settings cell
\* for the tuned read and for the Dask read that follows it.
ConfigOptions(m) ==
  CASE m \in {"local-download", "remote-default"} -> {}
    [] m \in {"remote-tuned", "remote-chunked"} -> TunedSet
    [] OTHER -> {}

\* The settings a section's own cells write.
SectionWrites(m) ==
  IF \E i \in 1..Len(Section(m)) : Section(m)[i] = "environ" THEN TunedSet ELSE {}

RECURSIVE LastWrite(_, _)
LastWrite(ws, n) ==
  IF ws = <<>> THEN "unset"
  ELSE IF ws[Len(ws)][1] = n THEN ws[Len(ws)][2]
  ELSE LastWrite(SubSeq(ws, 1, Len(ws) - 1), n)

\* ---------------------------------------------------------------- library

\* xr.open_rasterio(path, chunks=None): without chunks the array is read by
\* the kernel when it is reduced; with chunks it is a Dask array.
open_rasterio(chunks) == IF chunks THEN "lazy" ELSE "eager"

\* da.mean(dim=['x','y']): a task graph for a Dask array, a value otherwise.
mean(a) == IF a = "lazy" THEN "graph" ELSE "value"

\* LocalCluster(processes=p): a new worker pool.
LocalCluster(pools, p) == [id |-> Cardinality(pools) + 1, processes |-> p]

\* Client(address): attaches to the cluster given; with no address it starts
\* a LocalCluster of its own with the library's defaults (processes=True).
Client(pools, address) ==
  IF address # 0 THEN [pools |-> pools, client |-> address]
  ELSE LET own == LocalCluster(pools, TRUE)
       IN  [pools |-> pools \cup {own}, client |-> own.id]

\* Who reads the pixels when array a is reduced in cell c.
Reads(c, a) ==
  IF a = "eager" THEN {[cell |-> c, by |-> "kernel", pool |-> 0]} ELSE {}

\* Who runs the tasks when graph g is computed in cell c.
Runs(c, g) ==
  IF g # "graph" THEN {}
  ELSE IF dask.client # 0 THEN {[cell |-> c, by |-> "client", pool |-> dask.client]}
  ELSE {[cell |-> c, by |-> "threads", pool |-> 0]}

\* What the timed interval of a reduction holds.
Work(a) == IF a = "lazy" THEN {"graph"} ELSE {"materialize"}

\* ---------------------------------------------------------------- kernel

NoErr == [cell |-> "none", kind |-> "none"]

Names == {"os", "url", "localFile", "da", "ave", "chunks"}

Bound(S) == \A n \in S : ns[n] # "unbound"

\* The front-end keeps executing after a failed cell.
OnErrorRetry(q) == q

\* An exception in a cell: the kernel drops the cells still queued.
OnError(q) == <<>>

Raise(c, kind) ==
  /\ err' = [cell |-> c, kind |-> kind]
  /\ queue' = OnError(queue)
  /\ UNCHANGED <<pending, ns, env, writes, log, dask, ran>>

Ok == /\ queue' = Tail(queue)
      /\ UNCHANGED <<pending, err>>

\* %%time: the wall time of the cell is printed when the cell has finished.
Time(c, d, work) ==
  log' = Append(log, [mode |-> CellMode(c), phase |-> CellPhase(c),
                      elapsed |-> d, work |-> work, settings |-> Applied(env)])

At(c) == queue # <<>> /\ Head(queue) = c

FreshKernel ==
  /\ ns = [n \in Names |-> "unbound"]
  /\ env = [n \in SettingNames |-> "unset"]
  /\ writes = <<>>
  /\ log = <<>>
  /\ err = NoErr
  /\ dask = [pools |-> {}, cluster |-> 0, client |-> 0]
  /\ ran = {}

\* Run All on a fresh kernel.
Init ==
  /\ FreshKernel
  /\ queue = Notebook
  /\ pending = <<>>

\* ---------------------------------------------------------------- cells

\* import os, xarray, rasterio, rioxarray, hvplot, gdal, requests
Imports ==
  /\ At("imports")
  /\ ns' = [ns EXCEPT !["os"] = "module"]
  /\ Ok
  /\ UNCHANGED <<env, writes, log, dask, ran>>

\* print the library versions
Versions ==
  /\ At("versions")
  /\ IF ~Bound({"os"}) THEN Raise("versions", "NameError")
     ELSE Ok /\ UNCHANGED <<ns, env, writes, log, dask, ran>>

\* s3uri = ..., url = ...
Urls ==
  /\ At("urls")
  /\ ns' = [ns EXCEPT !["url"] = "str"]
  /\ Ok
  /\ UNCHANGED <<env, writes, log, dask, ran>>

\* requests.get(validator), resp.json()['status']
Validate ==
  /\ At("validate")
  /\ \E ok \in BOOLEAN :
       IF ~Bound({"os", "url"}) THEN Raise("validate", "NameError")
       ELSE IF ~ok THEN Raise("validate", "LibraryError")
       ELSE Ok /\ UNCHANGED <<ns, env, writes, log, dask, ran>>

\* %%time: !curl -O {url}; localFile = basename(url); da = xr.open_rasterio(localFile)
DlOpen ==
  /\ At("dl_open")
  /\ \E ok \in BOOLEAN, d \in Durations :
       IF ~Bound({"os", "url"}) THEN Raise("dl_open", "NameError")
       ELSE IF ~ok THEN Raise("dl_open", "LibraryError")
       ELSE /\ ns' = [ns EXCEPT !["localFile"] = "str", !["da"] = open_rasterio(FALSE)]
            /\ Time("dl_open", d, {"download", "open"})
            /\ Ok
            /\ UNCHANGED <<env, writes, dask, ran>>

\* print(da.nbytes); da
DlSize ==
  /\ At("dl_size")
  /\ IF ~Bound({"da"}) THEN Raise("dl_size", "NameError")
     ELSE Ok /\ UNCHANGED <<ns, env, writes, log, dask, ran>>

\* %%time: da.mean(dim=['x','y'])
MeanCell(c) ==
  /\ At(c)
  /\ \E ok \in BOOLEAN, d \in Durations :
       IF ~Bound({"da"}) THEN Raise(c, "NameError")
       ELSE IF ns["da"] = "eager" /\ ~ok THEN Raise(c, "LibraryError")
       ELSE /\ ran' = ran \cup Reads(c, ns["da"])
            /\ Time(c, d, Work(ns["da"]))
            /\ Ok
            /\ UNCHANGED <<ns, env, writes, dask>>

DlMean == MeanCell("dl_mean")

DefMean == MeanCell("def_mean")

TunedMean == MeanCell("tuned_mean")

\* del da
DelCell(c) ==
  /\ At(c)
  /\ IF ~Bound({"da"}) THEN Raise(c, "NameError")
     ELSE /\ ns' = [ns EXCEPT !["da"] = "unbound"]
          /\ Ok
          /\ UNCHANGED <<env, writes, log, dask, ran>>

DlDel == DelCell("dl_del")

DefDel == DelCell("def_del")

TunedDel == DelCell("tuned_del")

\* %%time: da = xr.open_rasterio(url)
OpenCell(c) ==
  /\ At(c)
  /\ \E ok \in BOOLEAN, d \in Durations :
       IF ~Bound({"os", "url"}) THEN Raise(c, "NameError")
       ELSE IF ~ok THEN Raise(c, "LibraryError")
       ELSE /\ ns' = [ns EXCEPT !["da"] = open_rasterio(FALSE)]
            /\ Time(c, d, {"open"})
            /\ Ok
            /\ UNCHANGED <<env, writes, dask, ran>>

DefOpen == OpenCell("def_open")

TunedOpen == OpenCell("tuned_open")

\* %%time: da = xr.open_rasterio(url); da.mean(dim=['x','y'])
DefCached ==
  /\ At("def_cached")
  /\ \E ok \in BOOLEAN, d \in Durations :
       IF ~Bound({"os", "url"}) THEN Raise("def_cached", "NameError")
       ELSE IF ~ok THEN Raise("def_cached", "LibraryError")
       ELSE /\ ns' = [ns EXCEPT !["da"] = open_rasterio(FALSE)]
            /\ ran' = ran \cup Reads("def_cached", open_rasterio(FALSE))
            /\ Time("def_cached", d, {"open"} \cup Work(open_rasterio(FALSE)))
            /\ Ok
            /\ UNCHANGED <<env, writes, dask>>

\* os.environ[...] = ... (five assignments)
Environ ==
  /\ At("environ")
  /\ IF ~Bound({"os"}) THEN Raise("environ", "NameError")
     ELSE /\ env' = ApplyAll(env, GDALSettings)
          /\ writes' = writes \o GDALSettings
          /\ Ok
          /\ UNCHANGED <<ns, log, dask, ran>>

\* cluster = LocalCluster(processes=False, ...); client = Client(); client
Cluster ==
  /\ At("cluster")
  /\ LET cluster == LocalCluster(dask.pools, FALSE)
         started == Client(dask.pools \cup {cluster}, 0)
     IN  dask' = [pools |-> started.pools, cluster |-> cluster.id,
                  client |-> started.client]
  /\ Ok
  /\ UNCHANGED <<ns, env, writes, log, ran>>

\* chunks = dict(...) passed to open_rasterio, dropped.
ChunkedOpenNoChunks == open_rasterio(FALSE)

\* xr.open_rasterio(url, chunks=chunks)
ChunkedOpen == open_rasterio(TRUE)

\* %%time: chunks = dict(band=1, x=2745, y=2745); da = xr.open_rasterio(url, chunks=chunks)
ChunkOpen ==
  /\ At("chunk_open")
  /\ \E ok \in BOOLEAN, d \in Durations :
       IF ~Bound({"os", "url"}) THEN Raise("chunk_open", "NameError")
       ELSE IF ~ok THEN Raise("chunk_open", "LibraryError")
       ELSE /\ ns' = [ns EXCEPT !["chunks"] = "dict", !["da"] = ChunkedOpen]
            /\ Time("chunk_open", d, {"open"})
            /\ Ok
            /\ UNCHANGED <<env, writes, dask, ran>>

\* %%time: ave = da.mean(dim=['x','y']); ave
Graph ==
  /\ At("graph")
  /\ \E ok \in BOOLEAN, d \in Durations :
       IF ~Bound({"da"}) THEN Raise("graph", "NameError")
       ELSE IF ns["da"] = "eager" /\ ~ok THEN Raise("graph", "LibraryError")
       ELSE /\ ns' = [ns EXCEPT !["ave"] = mean(ns["da"])]
            /\ ran' = ran \cup Reads("graph", ns["da"])
            /\ Time("graph", d, Work(ns["da"]))
            /\ Ok
            /\ UNCHANGED <<env, writes, dask>>

\* ave.data.visualize(optimize_graph=True, rankdir='LR')
Visualize ==
  /\ At("visualize")
  /\ IF ~Bound({"ave"}) THEN Raise("visualize", "NameError")
     ELSE IF ns["ave"] # "graph" THEN Raise("visualize", "AttributeError")
     ELSE Ok /\ UNCHANGED <<ns, env, writes, log, dask, ran>>

\* %%time: ave.compute()
Compute ==
  /\ At("compute")
  /\ \E ok \in BOOLEAN, d \in Durations :
       IF ~Bound({"ave"}) THEN Raise("compute", "NameError")
       ELSE IF ns["ave"] = "graph" /\ ~ok THEN Raise("compute", "LibraryError")
       ELSE /\ ran' = ran \cup Runs("compute", ns["ave"])
            /\ Time("compute", d,
                    IF ns["ave"] = "graph" THEN {"materialize"} ELSE {})
            /\ Ok
            /\ UNCHANGED <<ns, env, writes, dask>>

\* %%time: da = rioxarray.open_rasterio(url, masked=True, overview_level=3); da.hvplot.image(...)
Hvplot ==
  /\ At("hvplot")
  /\ \E ok \in BOOLEAN, d \in Durations :
       IF ~Bound({"os", "url"}) THEN Raise("hvplot", "NameError")
       ELSE IF ~ok THEN Raise("hvplot", "LibraryError")
       ELSE /\ ns' = [ns EXCEPT !["da"] = open_rasterio(FALSE)]
            /\ ran' = ran \cup Reads("hvplot", open_rasterio(FALSE))
            /\ Time("hvplot", d, {"open", "plot"} \cup Work(open_rasterio(FALSE)))
            /\ Ok
            /\ UNCHANGED <<env, writes, dask>>

\* the empty last cell
Empty ==
  /\ At("empty")
  /\ Ok
  /\ UNCHANGED <<ns, env, writes, log, dask, ran>>

\* The kernel executes the cell at the head of the queue.
Execute ==
  \/ Imports \/ Versions \/ Urls \/ Validate
  \/ DlOpen \/ DlSize \/ DlMean \/ DlDel
  \/ DefOpen \/ DefMean \/ DefCached \/ DefDel
  \/ Environ \/ TunedOpen \/ TunedMean \/ TunedDel
  \/ Cluster \/ ChunkOpen \/ Graph \/ Visualize \/ Compute
  \/ Hvplot \/ Empty

Next == Execute

Spec == Init /\ [][Next]_vars

\* ---------------------------------------------------------------- front-end

\* The user runs whole sections, one after another, in an order of their own.
InitSeq ==
  /\ FreshKernel
  /\ queue = Preamble
  /\ pending \in {[i \in 1..Len(p) |-> Section(p[i])] :
                    p \in UNION {[1..k -> Sections] : k \in 1..MaxRuns}}

\* The next section is submitted when the kernel is idle.
SubmitRun ==
  /\ queue = <<>>
  /\ pending # <<>>
  /\ queue' = Head(pending)
  /\ pending' = Tail(pending)
  /\ err' = NoErr
  /\ UNCHANGED <<ns, env, writes, log, dask, ran>>

NextSeq == Execute \/ SubmitRun

SpecSeq == InitSeq /\ [][NextSeq]_vars

\* The user steps through two sections of different strategies, cell by cell,
\* switching between them at will.
InitInterleaved ==
  /\ FreshKernel
  /\ queue = Preamble
  /\ pending \in {<<Section(a), Section(b)>> : a \in Sections, b \in Sections} \
                 {<<Section(a), Section(a)>> : a \in Sections}

\* The next cell of either section is submitted when the kernel is idle.
SubmitCell ==
  /\ queue = <<>>
  /\ \E i \in 1..Len(pending) :
       /\ pending[i] # <<>>
       /\ queue' = <<Head(pending[i])>>
       /\ pending' = [pending EXCEPT ![i] = Tail(@)]
  /\ err' = NoErr
  /\ UNCHANGED <<ns, env, writes, log, dask, ran>>

NextInterleaved == Execute \/ SubmitCell

SpecInterleaved == InitInterleaved /\ [][NextInterleaved]_vars

\* ---------------------------------------------------------------- properties

\* The timed cells of the four strategies.
Measured(c) == CellMode(c) \in Modes /\ CellPhase(c) # "untimed"

Samples == {log[i] : i \in 1..Len(log)}

HasSample(m, ph) == \E s \in Samples : s.mode = m /\ s.phase = ph

IsPrefix(a, b) == Len(a) <= Len(b) /\ SubSeq(b, 1, Len(a)) = a

\* A step that records a timing of one of the four strategies.
Records == Len(log') = Len(log) + 1 /\ log'[Len(log')].mode \in Modes

\* C1: for every strategy, its "open" timing is in the log before its
\* "compute" timing, and its compute cell is never the one to run next while
\* its open has not been recorded.
OpenPrecedesCompute ==
  /\ \A j \in 1..Len(log) :
       log[j].phase = "compute" =>
         \E i \in 1..(j - 1) : log[i].mode = log[j].mode /\ log[i].phase = "open"
  /\ \A c \in Cells :
       At(c) /\ CellPhase(c) = "compute" => HasSample(CellMode(c), "open")

OpenPrecedesComputeWitness ==
  /\ HasSample("remote-default", "compute")
  /\ HasSample("remote-chunked", "compute")

\* C2 as stated: every strategy is opened under a non-empty set of settings.
ResolverNonEmpty ==
  \A s \in Samples :
    s.mode \in Modes /\ s.phase \in {"open", "open+compute"} => s.settings # {}

\* C2 amended: the tuned and the chunked read are opened under the five
\* settings of the settings cell, the download and the default read under
\* none, and two opens of the same strategy see the identical set.
ResolverPerMode ==
  /\ \A s \in Samples :
       s.mode \in Modes /\ s.phase \in {"open", "open+compute"} =>
         IF s.mode \in {"remote-tuned", "remote-chunked"}
         THEN s.settings = TunedSet /\ Cardinality(s.settings) = Len(GDALSettings)
         ELSE s.settings = {}
  /\ \A s \in Samples, t \in Samples :
       s.mode = t.mode /\ s.mode \in Modes => s.settings = t.settings

ResolverPerModeWitness ==
  /\ HasSample("remote-default", "open")
  /\ HasSample("remote-default", "open+compute")
  /\ HasSample("remote-tuned", "open")
  /\ HasSample("remote-chunked", "open")

\* The place of a strategy's section in the notebook.
ModeIndex(m) ==
  CHOOSE i \in 1..Len(Notebook) :
    /\ CellMode(Notebook[i]) = m
    /\ \A j \in 1..(i - 1) : CellMode(Notebook[j]) # m

Earlier(a, b) == ModeIndex(a) < ModeIndex(b)

\* C3 as stated: whenever a timed cell of a strategy is the next to run, the
\* environment holds exactly that strategy's settings; and when a setting of
\* a strategy is written, no timed cell of an earlier strategy is still to
\* run.
SettingsNeverEarly ==
  /\ [](\A c \in Cells :
          At(c) /\ Measured(c) => Applied(env) = ConfigOptions(CellMode(c)))
  /\ [][\A m \in Modes :
          ConfigOptions(m) \cap (Applied(env') \ Applied(env)) # {} =>
            \A i \in 1..Len(queue') :
              Measured(queue'[i]) => ~Earlier(CellMode(queue'[i]), m)]_vars

\* C3 amended: whenever a timed cell of a strategy is the next to run, the
\* environment holds exactly that strategy's settings; and a write to the
\* environment happens only when every timed cell still queued belongs to a
\* strategy measured under the settings written.
SettingsExactlyAtOpen ==
  /\ [](\A c \in Cells :
          At(c) /\ Measured(c) => Applied(env) = ConfigOptions(CellMode(c)))
  /\ [][env' # env =>
          \A i \in 1..Len(queue') :
            Measured(queue'[i]) => ConfigOptions(CellMode(queue'[i])) = Applied(env')]_vars

SettingsExactlyAtOpenWitness ==
  /\ At("chunk_open")
  /\ Applied(env) = TunedSet
  /\ HasSample("remote-default", "compute")
  /\ HasSample("remote-tuned", "open")

\* C4 as stated: a timing of a strategy is recorded only after settings have
\* been written into the environment.
SampleAfterApply == [][Records => writes # <<>>]_vars

\* C4 amended: a timing of the tuned or chunked read is recorded only after
\* the settings cell has written the environment; a timing of the download
\* or the default read is recorded with nothing written.
SampleAfterApplyTuned ==
  [][Records =>
       (writes # <<>> <=>
          log'[Len(log')].mode \in {"remote-tuned", "remote-chunked"})]_vars

SampleAfterApplyTunedWitness ==
  /\ HasSample("local-download", "compute")
  /\ HasSample("remote-tuned", "compute")
  /\ writes # <<>>

\* C5: in the chunked read nothing is read or run before the compute cell;
\* the array stays deferred until then; the "compute" timing holds the
\* materialization alone and the graph construction is timed by itself.
DeferredUntilCompute ==
  /\ \A r \in ran : CellMode(r.cell) = "remote-chunked" => r.cell = "compute"
  /\ \A c \in {"graph", "visualize", "compute"} : At(c) => ns["da"] = "lazy"
  /\ At("visualize") \/ At("compute") => ns["ave"] = "graph"
  /\ \A s \in Samples :
       s.mode = "remote-chunked" =>
         /\ s.phase = "open" => s.work = {"open"}
         /\ s.phase = "graph" => s.work = {"graph"}
         /\ s.phase = "compute" => s.work = {"materialize"}

DeferredUntilComputeWitness ==
  /\ HasSample("remote-chunked", "graph")
  /\ HasSample("remote-chunked", "compute")
  /\ \E r \in ran : r.cell = "compute"

RunsIndependent ==
  \A c \in Cells :
    At(c) /\ Measured(c) => Applied(env) = SectionWrites(CellMode(c))

\* C8 amended: the settings in force at a timed cell are the settings cell's
\* five when that cell has run earlier in the process, and none otherwise.
RunsDependOnSettingsCell ==
  \A c \in Cells :
    At(c) /\ Measured(c) =>
      Applied(env) = IF writes # <<>> THEN TunedSet ELSE {}

RunsDependOnSettingsCellWitness ==
  /\ At("compute")
  /\ Applied(env) = TunedSet
  /\ HasSample("remote-tuned", "compute")

\* C9: every setting holds the value of the most recent write to it.
LastWriterWins == \A n \in SettingNames : env[n] = LastWrite(writes, n)

\* A default read timed under the settings the tuned run wrote, while the
\* tuned run has not yet opened.
LastWriterWinsWitness ==
  /\ \E s \in Samples :
       s.mode = "remote-default" /\ s.phase = "open" /\ s.settings = TunedSet
  /\ ~HasSample("remote-tuned", "open")
  /\ \A i \in 1..Len(pending) : pending[i] # <<>>

\* C10: the chunked compute runs on the thread-based pool the notebook asked
\* for, the client is attached to it, and there is no other pool.
ComputeOnRequestedPool ==
  /\ \A r \in ran :
       r.cell = "compute" =>
         /\ r.pool = dask.cluster
         /\ \A p \in dask.pools : p.id = r.pool => ~p.processes
  /\ dask.client = dask.cluster
  /\ \A p \in dask.pools : p.id = dask.cluster

====
